---- MODULE Spec2Model ----
(***************************************************************************)
(* The note-tree editing engine of the outliner: the forest notesData, its *)
(* structural operations (addNewSibling, increaseNoteDepth,                *)
(* decreaseNoteDepth, deleteNote, updateNoteContent), the text codec       *)
(* (exportToTxt, importFromTxt) and persistence (saveNotes, loadNotes).    *)
(*                                                                         *)
(* JavaScript objects are modelled as a heap: a note object is an address  *)
(* in Addrs, heap[a] holds its fields, and an array of notes is a sequence *)
(* of addresses.  Every note owns one children array for its whole life,   *)
(* so the identity of an array is its owner: 0 for the array notesData,    *)
(* the note's address for note.children.  Indices are 1-based here: the    *)
(* JavaScript index i is i + 1, and findIndex's -1 is 0.                   *)
(* Text is a sequence of one-character strings.                            *)
(*                                                                         *)
(* Five specifications: Spec, every operation on small forests; FileSpec,  *)
(* the import of larger files; KeySpec, the key handler on deeper forests; *)
(* FocusSpec, the key handler, the import and the callbacks given to       *)
(* setTimeout as separate tasks; ScriptSpec, the key handler of the        *)
(* earlier editor (script.js).                                             *)
(***************************************************************************)
EXTENDS Integers, Sequences, FiniteSets, TLC

\* ---------------------------------------------------------------- bounds
MaxNodes == 4
MaxTypedLen == 1
MaxTextLen == 3
MaxLines == 3
MaxTabs == 2
MaxKeyNodes == 7
MaxTimers == 2
MaxFocusNodes == 3

\* ------------------------------------------------------------- constants
MAX_DEPTH == 5

Tab == "\t"
NL == "\n"
Space == " "

Addrs == 1..MaxNodes
\* Note ids.  An id is an opaque string that the program only ever compares
\* for equality, so ids are numbers here, and MaxNodes + 1 of them are enough
\* to give every note its own and leave one that no note has.
IdSpace == 1..(MaxNodes + 1)
\* The id of no note (a free heap cell, a call with an id that is not there).
NoId == 0
\* document.activeElement is not a note's editing surface.
NoActive == 0

Null == [id |-> NoId, content |-> <<>>, children |-> <<>>]

\* No file is being read.
NoFile == [pending |-> FALSE, text |-> <<>>]

\* document.activeElement is the body: no editing surface and not the
\* container has the focus.
NoFocus == [on |-> "body", note |-> 0]

VARIABLES
    heap,       \* the note objects: address -> [id, content, children]
    notesData,  \* the root array: a sequence of addresses
    storage,    \* localStorage[STORAGE_KEY]: [present, data]
    loaded,     \* DOMContentLoaded has fired: loadNotes ran, the handlers are bound
    file,       \* the FileReader of handleImport: [pending, text], text being
                \* e.target.result once the reader has fired
    timers,     \* the callbacks given to setTimeout that have not run, in order
    focus,      \* document.activeElement: [on, note]
    thrown      \* the last task ended with an uncaught TypeError

vars == <<heap, notesData, storage, loaded, file, timers, focus, thrown>>

\* ------------------------------------------------------------ sequences
RECURSIVE SeqsUpTo(_, _)
SeqsUpTo(S, n) ==
    IF n = 0 THEN {<<>>}
    ELSE LET shorter == SeqsUpTo(S, n - 1)
         IN  shorter \cup {Append(q, c) : q \in {r \in shorter : Len(r) = n - 1}, c \in S}

\* Array.prototype.splice(i, 1) at the 1-based index i.
RemoveAt(seq, i) ==
    SubSeq(seq, 1, i - 1) \o SubSeq(seq, i + 1, Len(seq))

\* Array.prototype.splice(i, 0, ...items): items start at the 1-based index i
\* (a start beyond the end appends).
InsertAt(seq, i, items) ==
    LET k == IF i > Len(seq) + 1 THEN Len(seq) + 1 ELSE i
    IN  SubSeq(seq, 1, k - 1) \o items \o SubSeq(seq, k, Len(seq))

\* ----------------------------------------------------------------- text
IsSpace(c) == c \in {Space, Tab, NL}

RECURSIVE TrimLeft(_)
TrimLeft(t) ==
    IF t # <<>> /\ IsSpace(Head(t)) THEN TrimLeft(Tail(t)) ELSE t

RECURSIVE TrimRight(_)
TrimRight(t) ==
    IF t # <<>> /\ IsSpace(t[Len(t)]) THEN TrimRight(SubSeq(t, 1, Len(t) - 1)) ELSE t

\* A variant of Trim: trimStart in place of trim.
TrimStartOnly(t) == TrimLeft(t)

\* String.prototype.trim
Trim(t) == TrimRight(TrimLeft(t))

\* txt.split('\n')
RECURSIVE Split(_)
Split(t) ==
    IF \A i \in 1..Len(t) : t[i] # NL THEN <<t>>
    ELSE LET k == CHOOSE i \in 1..Len(t) : t[i] = NL /\ \A j \in 1..(i - 1) : t[j] # NL
         IN  <<SubSeq(t, 1, k - 1)>> \o Split(SubSeq(t, k + 1, Len(t)))

\* line.search(/[^\t]/): the 0-based position of the first character that is
\* not a tab, -1 when there is none.
SearchNonTab(line) ==
    IF \A i \in 1..Len(line) : line[i] = Tab THEN -1
    ELSE (CHOOSE i \in 1..Len(line) : line[i] # Tab /\ \A j \in 1..(i - 1) : line[j] = Tab) - 1

\* '\t'.repeat(depth)
RECURSIVE Repeat(_, _)
Repeat(c, n) == IF n <= 0 THEN <<>> ELSE <<c>> \o Repeat(c, n - 1)

\* ----------------------------------------------------------------- heap
EmptyHeap == [a \in Addrs |-> Null]

Allocated(h) == {a \in DOMAIN h : h[a] # Null}

\* The address the next object literal gets.
NewAddr(h) == CHOOSE a \in DOMAIN h : h[a] = Null /\ \A b \in DOMAIN h : b < a => h[b] # Null

\* The array with identity `owner`.
ArrayOf(s, owner) == IF owner = 0 THEN s.notesData ELSE s.heap[owner].children

SetArray(s, owner, seq) ==
    IF owner = 0 THEN [s EXCEPT !.notesData = seq]
    ELSE [s EXCEPT !.heap[owner].children = seq]

\* The addresses reachable from an array.
RECURSIVE Reach(_, _)
Reach(h, seq) ==
    IF seq = <<>> THEN {}
    ELSE {Head(seq)} \cup Reach(h, h[Head(seq)].children) \cup Reach(h, Tail(seq))

\* Objects no array holds any more are collected.
Collect(s) ==
    LET live == Reach(s.heap, s.notesData)
    IN  [s EXCEPT !.heap = [a \in DOMAIN s.heap |-> IF a \in live THEN s.heap[a] ELSE Null]]

\* ----------------------------------------------------------- persistence
\* JSON.stringify(notesData): nested records, no object identity.
RECURSIVE Stringify(_, _)
Stringify(h, seq) ==
    [i \in 1..Len(seq) |->
        [id |-> h[seq[i]].id,
         content |-> h[seq[i]].content,
         children |-> Stringify(h, h[seq[i]].children)]]

\* JSON.parse: fresh objects, allocated in document order.  Builds `trees`
\* into heap h and returns the heap and the array of the new objects.
RECURSIVE ParseInto(_, _, _)
ParseInto(h, trees, acc) ==
    IF trees = <<>> THEN [heap |-> h, seq |-> acc]
    ELSE LET a == NewAddr(h)
             t == Head(trees)
             h1 == [h EXCEPT ![a] = [id |-> t.id, content |-> t.content, children |-> <<>>]]
             sub == ParseInto(h1, t.children, <<>>)
             h2 == [sub.heap EXCEPT ![a].children = sub.seq]
         IN  ParseInto(h2, Tail(trees), Append(acc, a))

saveNotes(s) ==
    [s EXCEPT !.storage = [present |-> TRUE, data |-> Stringify(s.heap, s.notesData)]]

\* A variant of loadNotes: the root is made only when nothing is stored.
loadNotesRootWhenAbsent(s, newId) ==
    IF s.storage.present
    THEN LET parsed == ParseInto(EmptyHeap, s.storage.data, <<>>)
         IN  [s EXCEPT !.heap = parsed.heap, !.notesData = parsed.seq]
    ELSE saveNotes([s EXCEPT
             !.heap = [EmptyHeap EXCEPT
                          ![1] = [id |-> newId, content |-> <<>>, children |-> <<>>]],
             !.notesData = <<1>>])

loadNotes(s, newId) ==
    LET parsed == IF s.storage.present
                  THEN ParseInto(EmptyHeap, s.storage.data, <<>>)
                  ELSE [heap |-> EmptyHeap, seq |-> <<>>]
        s1 == [s EXCEPT !.heap = parsed.heap, !.notesData = parsed.seq]
    IN  IF Len(s1.notesData) = 0
        THEN LET a == NewAddr(s1.heap)
             IN  saveNotes([s1 EXCEPT
                     !.heap[a] = [id |-> newId, content |-> <<>>, children |-> <<>>],
                     !.notesData = <<a>>])
        ELSE s1

\* ------------------------------------------------------------ tree store
NotFound == [found |-> FALSE, note |-> 0, parentArray |-> 0]

\* findNoteAndParent(notesArray, id): seq is what is left to scan of the
\* array `owner`.
RECURSIVE FindFrom(_, _, _, _)
FindFrom(h, seq, owner, id) ==
    IF seq = <<>> THEN NotFound
    ELSE LET a == Head(seq)
         IN  IF h[a].id = id
             THEN [found |-> TRUE, note |-> a, parentArray |-> owner]
             ELSE LET inner == IF Len(h[a].children) > 0
                               THEN FindFrom(h, h[a].children, a, id)
                               ELSE NotFound
                  IN  IF inner.found THEN inner ELSE FindFrom(h, Tail(seq), owner, id)

\* A variant of findNoteAndParent: an id that no note has stands for the
\* first root.
findNoteAndParentOrFirst(s, id) ==
    LET r == FindFrom(s.heap, s.notesData, 0, id)
    IN  IF r.found \/ s.notesData = <<>> THEN r
        ELSE [found |-> TRUE, note |-> s.notesData[1], parentArray |-> 0]

findNoteAndParent(s, id) == FindFrom(s.heap, s.notesData, 0, id)

\* parentArray.findIndex(n => n.id === id): 1-based, 0 for -1.
FindIndex(h, seq, id) ==
    IF \A i \in 1..Len(seq) : h[seq[i]].id # id THEN 0
    ELSE CHOOSE i \in 1..Len(seq) :
             h[seq[i]].id = id /\ \A j \in 1..(i - 1) : h[seq[j]].id # id

\* ----------------------------------------------- structural operations
\* A variant of updateNoteContent: the text is stored as it is typed.
updateNoteContentUntrimmed(s, id, content) ==
    LET r == findNoteAndParent(s, id)
    IN  IF r.found
        THEN saveNotes([s EXCEPT !.heap[r.note].content = content])
        ELSE s

updateNoteContent(s, id, content) ==
    LET r == findNoteAndParent(s, id)
    IN  IF r.found
        THEN saveNotes([s EXCEPT !.heap[r.note].content = Trim(content)])
        ELSE s

\* saveCurrentNote: `active` is the data-id of the note whose editing surface
\* has the focus (NoActive: the focus is elsewhere), `text` its textContent.
saveCurrentNote(s, active, text) ==
    IF active # NoActive THEN updateNoteContent(s, active, text) ELSE s

\* A variant of addNewSibling: the new note is spliced in at index in place
\* of index + 1.
addNewSiblingBefore(s, noteId, active, text, newId) ==
    LET s0 == saveCurrentNote(s, active, text)
        r == findNoteAndParent(s0, noteId)
    IN  IF ~r.found THEN s0
        ELSE LET parentArray == ArrayOf(s0, r.parentArray)
                 index == FindIndex(s0.heap, parentArray, noteId)
             IN  IF index # 0
                 THEN LET a == NewAddr(s0.heap)
                          s1 == [s0 EXCEPT !.heap[a] =
                                    [id |-> newId, content |-> <<>>, children |-> <<>>]]
                      IN  saveNotes(SetArray(s1, r.parentArray,
                                             InsertAt(parentArray, index, <<a>>)))
                 ELSE s0

addNewSibling(s, noteId, active, text, newId) ==
    LET s0 == saveCurrentNote(s, active, text)
        r == findNoteAndParent(s0, noteId)
    IN  IF ~r.found THEN s0
        ELSE LET parentArray == ArrayOf(s0, r.parentArray)
                 index == FindIndex(s0.heap, parentArray, noteId)
             IN  IF index # 0
                 THEN LET a == NewAddr(s0.heap)
                          s1 == [s0 EXCEPT !.heap[a] =
                                    [id |-> newId, content |-> <<>>, children |-> <<>>]]
                      IN  saveNotes(SetArray(s1, r.parentArray,
                                             InsertAt(parentArray, index + 1, <<a>>)))
                 ELSE s0

\* A variant of PushUnder: unshift in place of push.
PushUnderFirst(children, note) == <<note>> \o children

\* previousSibling.children.push(note)
PushUnder(children, note) == Append(children, note)

\* A variant of increaseNoteDepth: the note is pushed under the previous
\* sibling without being taken out of parentArray.
increaseNoteDepthWithoutDetach(s, noteId, active, text) ==
    LET s0 == saveCurrentNote(s, active, text)
        r == findNoteAndParent(s0, noteId)
    IN  IF ~r.found THEN s0
        ELSE LET parentArray == ArrayOf(s0, r.parentArray)
                 index == FindIndex(s0.heap, parentArray, noteId)
             IN  IF index > 1
                 THEN LET previousSibling == parentArray[index - 1]
                      IN  saveNotes([s0 EXCEPT !.heap[previousSibling].children =
                              PushUnder(s0.heap[previousSibling].children, r.note)])
                 ELSE s0

\* A variant of increaseNoteDepth: the note is taken out of parentArray
\* before the index is tested.
increaseNoteDepthSpliceFirst(s, noteId, active, text) ==
    LET s0 == saveCurrentNote(s, active, text)
        r == findNoteAndParent(s0, noteId)
    IN  IF ~r.found THEN s0
        ELSE LET parentArray == ArrayOf(s0, r.parentArray)
                 index == FindIndex(s0.heap, parentArray, noteId)
                 s1 == SetArray(s0, r.parentArray, RemoveAt(parentArray, index))
             IN  IF index > 1
                 THEN LET previousSibling == parentArray[index - 1]
                          s2 == [s1 EXCEPT !.heap[previousSibling].children =
                                    PushUnder(s1.heap[previousSibling].children, r.note)]
                      IN  saveNotes(s2)
                 ELSE saveNotes(s1)

increaseNoteDepth(s, noteId, active, text) ==
    LET s0 == saveCurrentNote(s, active, text)
        r == findNoteAndParent(s0, noteId)
    IN  IF ~r.found THEN s0
        ELSE LET parentArray == ArrayOf(s0, r.parentArray)
                 index == FindIndex(s0.heap, parentArray, noteId)
             IN  IF index > 1
                 THEN LET previousSibling == parentArray[index - 1]
                          s1 == SetArray(s0, r.parentArray, RemoveAt(parentArray, index))
                          s2 == [s1 EXCEPT !.heap[previousSibling].children =
                                    PushUnder(s1.heap[previousSibling].children, r.note)]
                      IN  saveNotes(s2)
                 ELSE s0

\* A variant of IsFirstRoot: the first root is kept only while it is the
\* only root.
IsOnlyRoot(s, parentArray, index) ==
    parentArray = 0 /\ index = 1 /\ Len(s.notesData) = 1

\* parentArray === notesData && index === 0
IsFirstRoot(s, parentArray, index) == parentArray = 0 /\ index = 1

\* A variant of SpliceChildren: the children go with the note.
SpliceWithoutChildren(parentArray, index, children) ==
    RemoveAt(parentArray, index)

\* A variant of SpliceChildren: the children are pushed at the end.
SpliceChildrenLast(parentArray, index, children) ==
    RemoveAt(parentArray, index) \o children

\* parentArray.splice(index, 1); parentArray.splice(index, 0, ...children)
SpliceChildren(parentArray, index, children) ==
    InsertAt(RemoveAt(parentArray, index), index, children)

deleteNote(s, noteId) ==
    LET r == findNoteAndParent(s, noteId)
    IN  IF ~r.found THEN s
        ELSE LET parentArray == ArrayOf(s, r.parentArray)
                 index == FindIndex(s.heap, parentArray, noteId)
             IN  IF IsFirstRoot(s, r.parentArray, index)
                 THEN saveNotes([s EXCEPT !.heap[r.note].content = <<>>])
                 ELSE LET children == s.heap[r.note].children
                          s1 == IF index # 0
                                THEN SetArray(s, r.parentArray,
                                         SpliceChildren(parentArray, index, children))
                                ELSE s
                      IN  saveNotes(Collect(s1))

\* findGrandparent(arr), arr being the array `container`: the note whose
\* children array is parentArray, and the array that holds that note.
NoParent == [found |-> FALSE, containerArray |-> 0, parentNoteId |-> NoId]

\* A variant of FindGrandparent: the notes of arr are looked at, their
\* children are not searched.
FindGrandparentNotBelow(h, seq, container, parentArray) ==
    IF \E i \in 1..Len(seq) : seq[i] = parentArray
    THEN [found |-> TRUE, containerArray |-> container, parentNoteId |-> h[parentArray].id]
    ELSE NoParent

RECURSIVE FindGrandparent(_, _, _, _)
FindGrandparent(h, seq, container, parentArray) ==
    IF seq = <<>> THEN NoParent
    ELSE LET n == Head(seq)
         IN  IF n = parentArray
             THEN [found |-> TRUE, containerArray |-> container, parentNoteId |-> h[n].id]
             ELSE LET inner == IF Len(h[n].children) > 0
                               THEN FindGrandparent(h, h[n].children, n, parentArray)
                               ELSE NoParent
                  IN  IF inner.found THEN inner
                      ELSE FindGrandparent(h, Tail(seq), container, parentArray)

\* The parent search of decreaseNoteDepth: first among the roots, then in depth.
FindParent(s, parentArray) ==
    IF \E i \in 1..Len(s.notesData) : s.notesData[i] = parentArray
    THEN [found |-> TRUE, containerArray |-> 0, parentNoteId |-> s.heap[parentArray].id]
    ELSE FindGrandparent(s.heap, s.notesData, 0, parentArray)

\* A variant of OutdentRoot: outdent of a root does nothing, as in the
\* earlier editor.
OutdentRootIgnored(s0, noteId) == s0

\* if (parentArray === notesData) { deleteNote(noteId); return; }
OutdentRoot(s0, noteId) == deleteNote(s0, noteId)

decreaseNoteDepth(s, noteId, active, text) ==
    LET s0 == saveCurrentNote(s, active, text)
        r == findNoteAndParent(s0, noteId)
    IN  IF ~r.found THEN s0
        ELSE IF r.parentArray = 0 THEN OutdentRoot(s0, noteId)
        ELSE LET p == FindParent(s0, r.parentArray)
             IN  IF ~p.found THEN s0
                 ELSE LET parentArray == ArrayOf(s0, r.parentArray)
                          indexInParent == FindIndex(s0.heap, parentArray, noteId)
                          s1 == SetArray(s0, r.parentArray, RemoveAt(parentArray, indexInParent))
                          containerArray == ArrayOf(s1, p.containerArray)
                          parentIndexInGrandparent ==
                              FindIndex(s1.heap, containerArray, p.parentNoteId)
                      IN  saveNotes(SetArray(s1, p.containerArray,
                              InsertAt(containerArray, parentIndexInGrandparent + 1, <<r.note>>)))

\* ----------------------------------------------------------- text codec
\* A variant of Traverse: the lines are written without their indent.
RECURSIVE TraverseWithoutIndent(_, _, _)
TraverseWithoutIndent(h, seq, depth) ==
    IF seq = <<>> THEN <<>>
    ELSE LET note == h[Head(seq)]
             line == note.content \o <<NL>>
             below == IF Len(note.children) > 0
                      THEN TraverseWithoutIndent(h, note.children, depth + 1)
                      ELSE <<>>
         IN  line \o below \o TraverseWithoutIndent(h, Tail(seq), depth)

\* traverse(notesArray, depth) of exportToTxt: the text it adds to txtContent.
RECURSIVE Traverse(_, _, _)
Traverse(h, seq, depth) ==
    IF seq = <<>> THEN <<>>
    ELSE LET note == h[Head(seq)]
             line == Repeat(Tab, depth) \o note.content \o <<NL>>
             below == IF Len(note.children) > 0
                      THEN Traverse(h, note.children, depth + 1)
                      ELSE <<>>
         IN  line \o below \o Traverse(h, Tail(seq), depth)

exportToTxt(s) == Trim(Traverse(s.heap, s.notesData, 0))

\* txt.split('\n').filter(line => line.trim() !== '')
Lines(txt) == SelectSeq(Split(txt), LAMBDA line : Trim(line) # <<>>)

\* A variant of PopTo: a frame of the same depth stays on the stack.
RECURSIVE PopToStrict(_, _)
PopToStrict(parentStack, depth) ==
    IF Len(parentStack) > 1 /\ parentStack[Len(parentStack)].depth > depth
    THEN PopToStrict(SubSeq(parentStack, 1, Len(parentStack) - 1), depth)
    ELSE parentStack

\* while (parentStack.length > 1 && top.depth >= depth) parentStack.pop()
RECURSIVE PopTo(_, _)
PopTo(parentStack, depth) ==
    IF Len(parentStack) > 1 /\ parentStack[Len(parentStack)].depth >= depth
    THEN PopTo(SubSeq(parentStack, 1, Len(parentStack) - 1), depth)
    ELSE parentStack

\* lines.forEach(...) of importFromTxt: st is [heap, newNotesData]; a stack
\* frame holds the identity of a children array (0: newNotesData) and a depth.
RECURSIVE ImportLines(_, _, _, _)
ImportLines(lines, ids, st, parentStack) ==
    IF lines = <<>> THEN st
    ELSE LET line == Head(lines)
             depth == SearchNonTab(line)
             content == Trim(line)
         IN  IF content = <<>>
             THEN ImportLines(Tail(lines), ids, st, parentStack)
             ELSE LET a == NewAddr(st.heap)
                      popped == PopTo(parentStack, depth)
                      parent == popped[Len(popped)].children
                      s1 == [st EXCEPT !.heap[a] =
                                [id |-> Head(ids), content |-> content, children |-> <<>>]]
                      s2 == SetArray(s1, parent, Append(ArrayOf(s1, parent), a))
                  IN  ImportLines(Tail(lines), Tail(ids), s2,
                                  Append(popped, [children |-> a, depth |-> depth]))

\* importFromTxt(txt); ids are the values generateId returns, in call order.
importFromTxt(s, txt, ids) ==
    LET built == ImportLines(Lines(txt), ids,
                             [heap |-> EmptyHeap, notesData |-> <<>>],
                             <<[children |-> 0, depth |-> -1]>>)
    IN  saveNotes([s EXCEPT !.heap = built.heap, !.notesData = built.notesData])

\* ------------------------------------------------------------ the inputs
\* What an editing surface can hold when an event reaches it.
TypedTexts == SeqsUpTo({"a", Space}, MaxTypedLen)

\* The files handed to the import.
ImportTexts == SeqsUpTo({"a", Tab, NL}, MaxTextLen)

\* The notes of an array and below, in document order.
RECURSIVE PreOrder(_, _)
PreOrder(h, seq) ==
    IF seq = <<>> THEN <<>>
    ELSE <<Head(seq)>> \o PreOrder(h, h[Head(seq)].children) \o PreOrder(h, Tail(seq))

UsedIds(s) == {s.heap[a].id : a \in Reach(s.heap, s.notesData)}

\* generateId() is Date.now() in base 36 followed by five base-36 digits of
\* Math.random(): nothing in it looks at the ids in use.  Its value is
\* either the id of some note of the forest or an id no note has; the least
\* unused number stands for every such id.
generateId(s) ==
    UsedIds(s) \cup {CHOOSE i \in IdSpace : i \notin UsedIds(s) /\ \A j \in 1..(i - 1) : j \in UsedIds(s)}

\* The ids an operation can be called with: the data-id of a rendered note,
\* or an id that no note has.
NoteIds(s) == generateId(s)

\* --------------------------------------------- states up to renaming
\* Addresses and ids are only compared for equality, so two states that
\* differ by a renaming of addresses and of ids are the same state of the
\* program.  Between two events the state is kept in one form: live objects
\* are numbered in document order (a compacting collection of the objects no
\* array holds) and ids in the order of their first occurrence.
RECURSIVE FirstOccurrences(_, _)
FirstOccurrences(seq, seen) ==
    IF seq = <<>> THEN <<>>
    ELSE IF Head(seq) \in seen THEN FirstOccurrences(Tail(seq), seen)
    ELSE <<Head(seq)>> \o FirstOccurrences(Tail(seq), seen \cup {Head(seq)})

PositionIn(seq, x) == CHOOSE i \in 1..Len(seq) : seq[i] = x

RECURSIVE StoredIds(_)
StoredIds(data) ==
    IF data = <<>> THEN <<>>
    ELSE <<Head(data).id>> \o StoredIds(Head(data).children) \o StoredIds(Tail(data))

RECURSIVE RenameStored(_, _)
RenameStored(data, ids) ==
    [i \in 1..Len(data) |->
        [id |-> PositionIn(ids, data[i].id),
         content |-> data[i].content,
         children |-> RenameStored(data[i].children, ids)]]

Canonical(s) ==
    LET order == FirstOccurrences(PreOrder(s.heap, s.notesData), {})
        ids == FirstOccurrences(
                   [i \in 1..Len(order) |-> s.heap[order[i]].id] \o StoredIds(s.storage.data), {})
        move(seq) == [i \in 1..Len(seq) |-> PositionIn(order, seq[i])]
    IN  [heap |-> [a \in DOMAIN s.heap |->
                      IF a <= Len(order)
                      THEN [id |-> PositionIn(ids, s.heap[order[a]].id),
                            content |-> s.heap[order[a]].content,
                            children |-> move(s.heap[order[a]].children)]
                      ELSE Null],
         notesData |-> move(s.notesData),
         storage |-> [present |-> s.storage.present,
                      data |-> RenameStored(s.storage.data, ids)]]

\* -------------------------------------------------------------- actions
\* One action per entry point; each runs to completion before the next event.
\* The operations are those of the functions: with MaxNodes notes no note is
\* as deep as MAX_DEPTH, so the depth test of handleKeydown lets every Tab
\* through.  deleteNote is also an operation of its own, on any id.
State == [heap |-> heap, notesData |-> notesData, storage |-> storage]

Becomes(s) ==
    LET c == Canonical(s)
    IN  /\ heap' = c.heap
        /\ notesData' = c.notesData
        /\ storage' = c.storage

\* The page before DOMContentLoaded: nothing stored, nothing loaded.
Init ==
    /\ heap = EmptyHeap
    /\ notesData = <<>>
    /\ storage = [present |-> FALSE, data |-> <<>>]
    /\ loaded = FALSE
    /\ file = NoFile
    /\ timers = <<>>
    /\ focus = NoFocus
    /\ thrown = FALSE

\* DOMContentLoaded, on the first visit and on every reload.
LoadNotes ==
    \E newId \in generateId([State EXCEPT !.heap = EmptyHeap, !.notesData = <<>>]) :
        /\ Becomes(loadNotes(State, newId))
        /\ loaded' = TRUE
        /\ UNCHANGED <<file, timers, focus, thrown>>

\* The focus an operation on noteId runs under: the key event reached the
\* editing surface of the note with that data-id, or the call did not come
\* from a key event and the focus is elsewhere.
Focus(noteId) ==
    {[active |-> noteId, text |-> t] : t \in TypedTexts}
        \cup {[active |-> NoActive, text |-> <<>>]}

\* blur on an editing surface
UpdateNoteContent ==
    \E id \in NoteIds(State), text \in TypedTexts :
        /\ loaded
        /\ Becomes(updateNoteContent(State, id, text))
        /\ UNCHANGED <<loaded, file, timers, focus, thrown>>

AddNewSibling ==
    \E noteId \in NoteIds(State), newId \in generateId(State) : \E f \in Focus(noteId) :
        /\ loaded
        /\ Cardinality(Allocated(heap)) < MaxNodes
        /\ Becomes(addNewSibling(State, noteId, f.active, f.text, newId))
        /\ UNCHANGED <<loaded, file, timers, focus, thrown>>

IncreaseNoteDepth ==
    \E noteId \in NoteIds(State) : \E f \in Focus(noteId) :
        /\ loaded
        /\ Becomes(increaseNoteDepth(State, noteId, f.active, f.text))
        /\ UNCHANGED <<loaded, file, timers, focus, thrown>>

DecreaseNoteDepth ==
    \E noteId \in NoteIds(State) : \E f \in Focus(noteId) :
        /\ loaded
        /\ Becomes(decreaseNoteDepth(State, noteId, f.active, f.text))
        /\ UNCHANGED <<loaded, file, timers, focus, thrown>>

DeleteNote ==
    \E noteId \in NoteIds(State) :
        /\ loaded
        /\ Becomes(deleteNote(State, noteId))
        /\ UNCHANGED <<loaded, file, timers, focus, thrown>>

\* handleImport and the reader.onload it leads to, the file read at once
ImportFromTxt ==
    \E txt \in ImportTexts :
        \E ids \in [1..Len(Lines(txt)) -> 1..Len(Lines(txt))] :
            /\ loaded
            /\ Len(Lines(txt)) <= MaxNodes
            /\ Becomes(importFromTxt(State, txt, ids))
            /\ UNCHANGED <<loaded, file, timers, focus, thrown>>

Next ==
    \/ LoadNotes
    \/ UpdateNoteContent
    \/ AddNewSibling
    \/ IncreaseNoteDepth
    \/ DecreaseNoteDepth
    \/ DeleteNote
    \/ ImportFromTxt

Spec == Init /\ [][Next]_vars

\* ------------------------------------------------- the import of a file
\* The codec on larger files than Spec reads: a new document, and a file
\* handed to handleImport whose reader has not fired yet.
FileLines ==
    {Repeat(Tab, d) \o c : d \in 0..MaxTabs, c \in {<<>>, <<"a">>, <<"b">>}}
        \cup {<<Space, Tab, "a">>, <<Tab, "b", Space>>, <<Space>>}

RECURSIVE Join(_)
Join(lines) ==
    IF lines = <<>> THEN <<>>
    ELSE IF Len(lines) = 1 THEN lines[1]
    ELSE Head(lines) \o <<NL>> \o Join(Tail(lines))

Files == {Join(ls) : ls \in SeqsUpTo(FileLines, MaxLines)}

\* The values generateId returns during one import: all different, or all the
\* same.
FileIds == {[i \in 1..MaxLines |-> i], [i \in 1..MaxLines |-> 1]}

\* The first visit: nothing stored, loadNotes makes the root.
NewDocument ==
    loadNotes([heap |-> EmptyHeap, notesData |-> <<>>,
               storage |-> [present |-> FALSE, data |-> <<>>]], 1)

FileInit ==
    /\ heap = NewDocument.heap
    /\ notesData = NewDocument.notesData
    /\ storage = NewDocument.storage
    /\ loaded = TRUE
    /\ \E txt \in Files : file = [pending |-> TRUE, text |-> txt]
    /\ timers = <<>>
    /\ focus = NoFocus
    /\ thrown = FALSE

\* reader.onload: importFromTxt(e.target.result)
ReaderOnLoad ==
    \E ids \in FileIds :
        /\ file.pending
        /\ Becomes(importFromTxt(State, file.text, ids))
        /\ file' = [file EXCEPT !.pending = FALSE]
        /\ UNCHANGED <<loaded, timers, focus, thrown>>

FileNext == ReaderOnLoad

FileSpec == FileInit /\ [][FileNext]_vars

\* ---------------------------------------------------- the key handler
\* handleKeydown on deeper forests than Spec holds: heaps of MaxKeyNodes
\* cells, every note with its own id (generateId's usual value) and no text
\* typed, so that the states are the shapes of the forest.
KeyAddrs == 1..MaxKeyNodes

\* generateId() returning an id no note has.
UnusedId(s) ==
    CHOOSE i \in 1..(MaxKeyNodes + 1) :
        i \notin UsedIds(s) /\ \A j \in 1..(i - 1) : j \in UsedIds(s)

\* renderAllNotes and renderNoteTree: the data-depth of the element made for
\* the note at address a (-1: no element is made for it).
RECURSIVE RenderedDepth(_, _, _, _)
RenderedDepth(h, seq, a, depth) ==
    IF seq = <<>> THEN -1
    ELSE IF Head(seq) = a THEN depth
    ELSE LET below == RenderedDepth(h, h[Head(seq)].children, a, depth + 1)
         IN  IF below # -1 THEN below ELSE RenderedDepth(h, Tail(seq), a, depth)

\* handleKeydown(event): noteEl is the note of event.target.closest('.note'),
\* whose data-id and data-depth are those renderAllNotes gave it, and text is
\* the textContent of the editing surface, which has the focus.
handleKeydown(s, key, shiftKey, noteEl, text, newId) ==
    LET noteId == s.heap[noteEl].id
        currentDepth == RenderedDepth(s.heap, s.notesData, noteEl, 0)
    IN  IF key = "Enter" /\ ~shiftKey
        THEN addNewSibling(s, noteId, noteId, text, newId)
        ELSE IF key = "Tab"
        THEN IF shiftKey
             THEN IF currentDepth >= 0
                  THEN decreaseNoteDepth(s, noteId, noteId, text)
                  ELSE s
             ELSE IF currentDepth < MAX_DEPTH
                  THEN increaseNoteDepth(s, noteId, noteId, text)
                  ELSE s
        ELSE s

\* A new document, in a heap of MaxKeyNodes cells.
KeyInit ==
    /\ heap = [a \in KeyAddrs |->
                  IF a = 1 THEN [id |-> 1, content |-> <<>>, children |-> <<>>] ELSE Null]
    /\ notesData = <<1>>
    /\ storage = [present |-> TRUE,
                  data |-> <<[id |-> 1, content |-> <<>>, children |-> <<>>]>>]
    /\ loaded = TRUE
    /\ file = NoFile
    /\ timers = <<>>
    /\ focus = NoFocus
    /\ thrown = FALSE

KeyEnter ==
    \E noteEl \in Reach(heap, notesData) :
        /\ Cardinality(Allocated(heap)) < MaxKeyNodes
        /\ Becomes(handleKeydown(State, "Enter", FALSE, noteEl,
                                 heap[noteEl].content, UnusedId(State)))
        /\ UNCHANGED <<loaded, file, timers, focus, thrown>>

KeyTab ==
    \E noteEl \in Reach(heap, notesData) :
        /\ Becomes(handleKeydown(State, "Tab", FALSE, noteEl,
                                 heap[noteEl].content, UnusedId(State)))
        /\ UNCHANGED <<loaded, file, timers, focus, thrown>>

KeyShiftTab ==
    \E noteEl \in Reach(heap, notesData) :
        /\ Becomes(handleKeydown(State, "Tab", TRUE, noteEl,
                                 heap[noteEl].content, UnusedId(State)))
        /\ UNCHANGED <<loaded, file, timers, focus, thrown>>

KeyNext ==
    \/ KeyEnter
    \/ KeyTab
    \/ KeyShiftTab

KeySpec == KeyInit /\ [][KeyNext]_vars

\* ------------------------------------------------ the deferred callbacks
\* The key handler, the import and the callbacks the operations give to
\* setTimeout(..., 0), each a task of the event loop: a callback runs after
\* the operation that left it, and other events can run in between.
\*
\* The callback of addNewSibling, increaseNoteDepth and decreaseNoteDepth
\* looks for the element with the data-id it was given.  first says that no
\* task has run since the callback was given to setTimeout.
FocusOnId(id) ==
    [kind |-> "focusId", id |-> id, index |-> 0, live |-> TRUE, first |-> TRUE]

\* The callback of deleteNote reads parentArray[index] when it runs.
\* decreaseNoteDepth calls deleteNote for a root only, so parentArray is the
\* array notesData held then: live says that notesData still holds it.
FocusAfterDelete(index) ==
    [kind |-> "afterDelete", id |-> NoId, index |-> index, live |-> TRUE,
     first |-> TRUE]

NoPage == [rendered |-> FALSE, callbacks |-> <<>>]

\* What addNewSibling does to the page: whether renderAllNotes ran, and the
\* callbacks given to setTimeout.
addNewSiblingPage(s, noteId, active, text, newId) ==
    LET s0 == saveCurrentNote(s, active, text)
        r == findNoteAndParent(s0, noteId)
    IN  IF ~r.found THEN NoPage
        ELSE IF FindIndex(s0.heap, ArrayOf(s0, r.parentArray), noteId) # 0
        THEN [rendered |-> TRUE, callbacks |-> <<FocusOnId(newId)>>]
        ELSE NoPage

increaseNoteDepthPage(s, noteId, active, text) ==
    LET s0 == saveCurrentNote(s, active, text)
        r == findNoteAndParent(s0, noteId)
    IN  IF ~r.found THEN NoPage
        ELSE IF FindIndex(s0.heap, ArrayOf(s0, r.parentArray), noteId) > 1
        THEN [rendered |-> TRUE, callbacks |-> <<FocusOnId(noteId)>>]
        ELSE NoPage

deleteNotePage(s, noteId) ==
    LET r == findNoteAndParent(s, noteId)
    IN  IF ~r.found THEN NoPage
        ELSE LET index == FindIndex(s.heap, ArrayOf(s, r.parentArray), noteId)
             IN  IF IsFirstRoot(s, r.parentArray, index)
                 THEN [rendered |-> TRUE, callbacks |-> <<>>]
                 ELSE [rendered |-> TRUE, callbacks |-> <<FocusAfterDelete(index)>>]

decreaseNoteDepthPage(s, noteId, active, text) ==
    LET s0 == saveCurrentNote(s, active, text)
        r == findNoteAndParent(s0, noteId)
    IN  IF ~r.found THEN NoPage
        ELSE IF r.parentArray = 0 THEN deleteNotePage(s0, noteId)
        ELSE IF ~FindParent(s0, r.parentArray).found THEN NoPage
        ELSE [rendered |-> TRUE, callbacks |-> <<FocusOnId(noteId)>>]

handleKeydownPage(s, key, shiftKey, noteEl, text, newId) ==
    LET noteId == s.heap[noteEl].id
        currentDepth == RenderedDepth(s.heap, s.notesData, noteEl, 0)
    IN  IF key = "Enter" /\ ~shiftKey
        THEN addNewSiblingPage(s, noteId, noteId, text, newId)
        ELSE IF key = "Tab"
        THEN IF shiftKey
             THEN IF currentDepth >= 0
                  THEN decreaseNoteDepthPage(s, noteId, noteId, text)
                  ELSE NoPage
             ELSE IF currentDepth < MAX_DEPTH
                  THEN increaseNoteDepthPage(s, noteId, noteId, text)
                  ELSE NoPage
        ELSE NoPage

\* document.querySelector(`[data-id="${id}"] .note-content`): the first
\* element in document order rendered for a note with that id, as the
\* address of the note (0: null).  Every change of the forest is followed by
\* renderAllNotes, so the elements are those of the notes of the forest.
QuerySelector(s, id) ==
    LET order == PreOrder(s.heap, s.notesData)
    IN  IF \A i \in 1..Len(order) : s.heap[order[i]].id # id THEN 0
        ELSE order[CHOOSE i \in 1..Len(order) :
                       /\ s.heap[order[i]].id = id
                       /\ \A j \in 1..(i - 1) : s.heap[order[j]].id # id]

\* parentArray[index] || parentArray[index - 1] of deleteNote's callback, as
\* the id of that note (NoId: undefined).  An array that notesData no longer
\* holds has stayed as it was when it was replaced.
FocusNoteId(s, t) ==
    IF ~t.live THEN t.id
    ELSE LET parentArray == s.notesData
         IN  IF t.index <= Len(parentArray)
             THEN s.heap[parentArray[t.index]].id
             ELSE IF t.index - 1 >= 1 /\ t.index - 1 <= Len(parentArray)
             THEN s.heap[parentArray[t.index - 1]].id
             ELSE NoId

\* The callback t run on the page of s while active has the focus: the
\* element that has the focus afterwards, and whether a TypeError was raised
\* (focus() called on the null that querySelector returned).
RunCallback(s, t, active) ==
    IF t.kind = "focusId"
    THEN LET newEl == QuerySelector(s, t.id)
         IN  [focus |-> IF newEl # 0 THEN [on |-> "note", note |-> newEl] ELSE active,
              thrown |-> FALSE]
    ELSE LET focusNote == FocusNoteId(s, t)
         IN  IF focusNote # NoId
             THEN LET el == QuerySelector(s, focusNote)
                  IN  IF el # 0
                      THEN [focus |-> [on |-> "note", note |-> el], thrown |-> FALSE]
                      ELSE [focus |-> active, thrown |-> TRUE]
             ELSE [focus |-> [on |-> "container", note |-> 0], thrown |-> FALSE]

\* notesData = newNotesData: the callbacks of deleteNote keep the array that
\* notesData held.
Detached(s, tm) ==
    [i \in 1..Len(tm) |->
        IF tm[i].kind = "afterDelete" /\ tm[i].live
        THEN [tm[i] EXCEPT !.live = FALSE, !.id = FocusNoteId(s, tm[i])]
        ELSE tm[i]]

\* The callbacks that wait while another task runs.
Waited(tm) == [i \in 1..Len(tm) |-> [tm[i] EXCEPT !.first = FALSE]]

TimerIds(tm) == {tm[i].id : i \in 1..Len(tm)} \ {NoId}

\* generateId() returning ids that no note has and no callback holds.
RECURSIVE FreshIds(_, _)
FreshIds(taken, n) ==
    IF n = 0 THEN <<>>
    ELSE LET i == CHOOSE i \in 1..(Cardinality(taken) + 1) : i \notin taken
         IN  <<i>> \o FreshIds(taken \cup {i}, n - 1)

TakenIds == UsedIds(State) \cup TimerIds(timers)

\* The ids of the callbacks renamed with those of the forest.
CanonicalTimers(s, tm) ==
    LET order == FirstOccurrences(PreOrder(s.heap, s.notesData), {})
        held == SelectSeq([i \in 1..Len(tm) |-> tm[i].id], LAMBDA x : x # NoId)
        ids == FirstOccurrences(
                   [i \in 1..Len(order) |-> s.heap[order[i]].id]
                       \o StoredIds(s.storage.data) \o held, {})
    IN  [i \in 1..Len(tm) |->
            [tm[i] EXCEPT !.id = IF @ = NoId THEN NoId ELSE PositionIn(ids, @)]]

\* The files handed to the import while callbacks wait.
FocusFiles == {<<>>, <<"a">>, <<"a", NL, "a">>, <<"a", NL, Tab, "a">>}
FocusLines == 2

\* A new document, loaded.
FocusInit ==
    /\ heap = NewDocument.heap
    /\ notesData = NewDocument.notesData
    /\ storage = NewDocument.storage
    /\ loaded = TRUE
    /\ file = NoFile
    /\ timers = <<>>
    /\ focus = NoFocus
    /\ thrown = FALSE

\* keydown in the editing surface of noteEl, which has the focus and holds
\* the text of its note.
PressEnter ==
    \E noteEl \in Reach(heap, notesData) :
        \E newId \in UsedIds(State) \cup {FreshIds(TakenIds, 1)[1]} :
            LET text == heap[noteEl].content
                page == handleKeydownPage(State, "Enter", FALSE, noteEl, text, newId)
            IN  /\ Cardinality(Allocated(heap)) < MaxFocusNodes
                /\ Len(timers) + Len(page.callbacks) <= MaxTimers
                /\ Becomes(handleKeydown(State, "Enter", FALSE, noteEl, text, newId))
                /\ timers' = CanonicalTimers(
                                 handleKeydown(State, "Enter", FALSE, noteEl, text, newId),
                                 Waited(timers) \o page.callbacks)
                /\ focus' = IF page.rendered THEN NoFocus
                            ELSE [on |-> "note", note |-> noteEl]
                /\ thrown' = FALSE
                /\ UNCHANGED <<loaded, file>>

PressTab ==
    \E noteEl \in Reach(heap, notesData) :
        LET text == heap[noteEl].content
            page == handleKeydownPage(State, "Tab", FALSE, noteEl, text, NoId)
        IN  /\ Len(timers) + Len(page.callbacks) <= MaxTimers
            /\ Becomes(handleKeydown(State, "Tab", FALSE, noteEl, text, NoId))
            /\ timers' = CanonicalTimers(
                             handleKeydown(State, "Tab", FALSE, noteEl, text, NoId),
                             Waited(timers) \o page.callbacks)
            /\ focus' = IF page.rendered THEN NoFocus
                        ELSE [on |-> "note", note |-> noteEl]
            /\ thrown' = FALSE
            /\ UNCHANGED <<loaded, file>>

PressShiftTab ==
    \E noteEl \in Reach(heap, notesData) :
        LET text == heap[noteEl].content
            page == handleKeydownPage(State, "Tab", TRUE, noteEl, text, NoId)
        IN  /\ Len(timers) + Len(page.callbacks) <= MaxTimers
            /\ Becomes(handleKeydown(State, "Tab", TRUE, noteEl, text, NoId))
            /\ timers' = CanonicalTimers(
                             handleKeydown(State, "Tab", TRUE, noteEl, text, NoId),
                             Waited(timers) \o page.callbacks)
            /\ focus' = IF page.rendered THEN NoFocus
                        ELSE [on |-> "note", note |-> noteEl]
            /\ thrown' = FALSE
            /\ UNCHANGED <<loaded, file>>

\* reader.onload of an import: the forest is replaced and rendered.  The ids
\* generateId returns are all different, or all the same.
ImportFile ==
    \E txt \in FocusFiles : \E same \in BOOLEAN :
        LET fresh == FreshIds(TakenIds, FocusLines)
            ids == [i \in 1..FocusLines |-> IF same THEN fresh[1] ELSE fresh[i]]
            after == importFromTxt(State, txt, ids)
        IN  /\ Becomes(after)
            /\ timers' = CanonicalTimers(after, Waited(Detached(State, timers)))
            /\ focus' = NoFocus
            /\ thrown' = FALSE
            /\ UNCHANGED <<loaded, file>>

\* The event loop runs the oldest callback.
RunTimer ==
    /\ timers # <<>>
    /\ LET ran == RunCallback(State, Head(timers), focus)
       IN  /\ focus' = ran.focus
           /\ thrown' = ran.thrown
    /\ timers' = CanonicalTimers(State, Waited(Tail(timers)))
    /\ UNCHANGED <<heap, notesData, storage, loaded, file>>

FocusNext ==
    \/ PressEnter
    \/ PressTab
    \/ PressShiftTab
    \/ ImportFile
    \/ RunTimer

FocusSpec == FocusInit /\ [][FocusNext]_vars

\* ------------------------------------------------- the earlier editor
\* script.js, the earlier variant of the editor: its addNewSibling and
\* increaseNoteDepth are those above without saveCurrentNote, its
\* decreaseNoteDepth and the Shift+Tab test of its handleKeydown are its own.
\*
\* decreaseNoteDepth of script.js: the state it leaves, and whether it raised
\* a TypeError (parentArray.find(...) returned undefined and .id was read).
scriptDecreaseNoteDepth(s, noteId) ==
    LET noteResult == findNoteAndParent(s, noteId)
    IN  IF ~noteResult.found THEN [state |-> s, raised |-> FALSE]
        ELSE IF noteResult.parentArray = 0 /\ FindIndex(s.heap, s.notesData, noteId) # 0
        THEN [state |-> s, raised |-> FALSE]
        ELSE LET parentArray == ArrayOf(s, noteResult.parentArray)
                 others == SelectSeq(parentArray, LAMBDA a : s.heap[a].id # noteId)
             IN  IF others = <<>> THEN [state |-> s, raised |-> TRUE]
                 ELSE LET parentNoteInfo == findNoteAndParent(s, s.heap[Head(others)].id)
                          rootParent == \E i \in 1..Len(s.notesData) :
                                            s.notesData[i] = noteResult.parentArray
                      IN  IF ~parentNoteInfo.found /\ ~rootParent
                          THEN [state |-> s, raised |-> FALSE]
                          ELSE LET containerId == IF parentNoteInfo.found
                                                  THEN parentNoteInfo.parentArray
                                                  ELSE 0
                                   parentNoteId == IF parentNoteInfo.found
                                                   THEN s.heap[parentNoteInfo.note].id
                                                   ELSE s.heap[noteResult.parentArray].id
                                   indexInParent == FindIndex(s.heap, parentArray, noteId)
                                   s1 == SetArray(s, noteResult.parentArray,
                                                  RemoveAt(parentArray, indexInParent))
                                   containerArray == ArrayOf(s1, containerId)
                                   parentIndexInGrandparent ==
                                       FindIndex(s1.heap, containerArray, parentNoteId)
                               IN  [state |-> saveNotes(SetArray(s1, containerId,
                                        InsertAt(containerArray, parentIndexInGrandparent + 1,
                                                 <<noteResult.note>>))),
                                    raised |-> FALSE]

\* handleKeydown of script.js.
scriptHandleKeydown(s, key, shiftKey, noteEl, newId) ==
    LET noteId == s.heap[noteEl].id
        currentDepth == RenderedDepth(s.heap, s.notesData, noteEl, 0)
    IN  IF key = "Enter" /\ ~shiftKey
        THEN [state |-> addNewSibling(s, noteId, NoActive, <<>>, newId), raised |-> FALSE]
        ELSE IF key = "Tab"
        THEN IF shiftKey
             THEN IF currentDepth > 0
                  THEN scriptDecreaseNoteDepth(s, noteId)
                  ELSE [state |-> s, raised |-> FALSE]
             ELSE IF currentDepth < MAX_DEPTH
                  THEN [state |-> increaseNoteDepth(s, noteId, NoActive, <<>>),
                        raised |-> FALSE]
                  ELSE [state |-> s, raised |-> FALSE]
        ELSE [state |-> s, raised |-> FALSE]

\* A new document of script.js, in a heap of MaxKeyNodes cells: loadNotes
\* makes one root, whose text ("a" here) no operation looks at.
ScriptInit ==
    /\ heap = [a \in KeyAddrs |->
                  IF a = 1 THEN [id |-> 1, content |-> <<"a">>, children |-> <<>>] ELSE Null]
    /\ notesData = <<1>>
    /\ storage = [present |-> TRUE,
                  data |-> <<[id |-> 1, content |-> <<"a">>, children |-> <<>>]>>]
    /\ loaded = TRUE
    /\ file = NoFile
    /\ timers = <<>>
    /\ focus = NoFocus
    /\ thrown = FALSE

ScriptEnter ==
    \E noteEl \in Reach(heap, notesData) :
        LET out == scriptHandleKeydown(State, "Enter", FALSE, noteEl, UnusedId(State))
        IN  /\ Cardinality(Allocated(heap)) < MaxKeyNodes
            /\ Becomes(out.state)
            /\ thrown' = out.raised
            /\ UNCHANGED <<loaded, file, timers, focus>>

ScriptTab ==
    \E noteEl \in Reach(heap, notesData) :
        LET out == scriptHandleKeydown(State, "Tab", FALSE, noteEl, UnusedId(State))
        IN  /\ Becomes(out.state)
            /\ thrown' = out.raised
            /\ UNCHANGED <<loaded, file, timers, focus>>

ScriptShiftTab ==
    \E noteEl \in Reach(heap, notesData) :
        LET out == scriptHandleKeydown(State, "Tab", TRUE, noteEl, UnusedId(State))
        IN  /\ Becomes(out.state)
            /\ thrown' = out.raised
            /\ UNCHANGED <<loaded, file, timers, focus>>

ScriptNext ==
    \/ ScriptEnter
    \/ ScriptTab
    \/ ScriptShiftTab

ScriptSpec == ScriptInit /\ [][ScriptNext]_vars

\* ------------------------------------------------- the forest as a value
\* The forest of s as nested notes, each with the address of its object.
RECURSIVE Tree(_, _)
Tree(h, seq) ==
    [i \in 1..Len(seq) |->
        [addr |-> seq[i],
         id |-> h[seq[i]].id,
         content |-> h[seq[i]].content,
         children |-> Tree(h, h[seq[i]].children)]]

TreeOf(s) == Tree(s.heap, s.notesData)

\* Structure and contents only: what an export and an import can carry.
RECURSIVE Contents(_)
Contents(T) ==
    [i \in 1..Len(T) |-> [content |-> T[i].content, children |-> Contents(T[i].children)]]

\* Structure and identity only.
RECURSIVE Structure(_)
Structure(T) ==
    [i \in 1..Len(T) |->
        [addr |-> T[i].addr, id |-> T[i].id, children |-> Structure(T[i].children)]]

\* The notes of T in document order.
RECURSIVE Flat(_)
Flat(T) ==
    IF T = <<>> THEN <<>>
    ELSE <<Head(T)>> \o Flat(Head(T).children) \o Flat(Tail(T))

\* The note an operation called with id is about: the first one in document
\* order that has the id (0: there is none).
Target(s, id) ==
    LET notes == Flat(TreeOf(s))
    IN  IF \A i \in 1..Len(notes) : notes[i].id # id THEN 0
        ELSE notes[CHOOSE i \in 1..Len(notes) :
                       notes[i].id = id /\ \A j \in 1..(i - 1) : notes[j].id # id].addr

\* The depth of the note at address a in T (-1: not in T).
RECURSIVE DepthIn(_, _, _)
DepthIn(T, a, d) ==
    IF T = <<>> THEN -1
    ELSE IF Head(T).addr = a THEN d
    ELSE LET below == DepthIn(Head(T).children, a, d + 1)
         IN  IF below # -1 THEN below ELSE DepthIn(Tail(T), a, d)

\* The subtree of the note at address a in T (<<>>: not in T).
RECURSIVE SubtreeIn(_, _)
SubtreeIn(T, a) ==
    IF T = <<>> THEN <<>>
    ELSE IF Head(T).addr = a THEN <<Head(T)>>
    ELSE LET below == SubtreeIn(Head(T).children, a)
         IN  IF below # <<>> THEN below ELSE SubtreeIn(Tail(T), a)

IsRootOf(s, a) == \E i \in 1..Len(s.notesData) : s.notesData[i] = a

\* T with the note at address a replaced, where it stands, by its children.
RECURSIVE Promoted(_, _)
Promoted(T, a) ==
    IF T = <<>> THEN <<>>
    ELSE (IF Head(T).addr = a THEN Head(T).children
          ELSE <<[Head(T) EXCEPT !.children = Promoted(Head(T).children, a)]>>)
         \o Promoted(Tail(T), a)

\* T with the content of the note at address a set to text.
RECURSIVE WithContent(_, _, _)
WithContent(T, a, text) ==
    [i \in 1..Len(T) |->
        IF T[i].addr = a THEN [T[i] EXCEPT !.content = text]
        ELSE [T[i] EXCEPT !.children = WithContent(T[i].children, a, text)]]

\* T with the note at address a, which is not first in its sequence, made
\* the last child of the note before it.
RECURSIVE Indented(_, _)
Indented(T, a) ==
    IF \E i \in 2..Len(T) : T[i].addr = a
    THEN LET i == CHOOSE k \in 2..Len(T) : T[k].addr = a
         IN  SubSeq(T, 1, i - 2)
                 \o <<[T[i - 1] EXCEPT !.children = T[i - 1].children \o <<T[i]>>]>>
                 \o SubSeq(T, i + 1, Len(T))
    ELSE [i \in 1..Len(T) |-> [T[i] EXCEPT !.children = Indented(T[i].children, a)]]

\* T with the note at address a, a child of some note P, taken out of P's
\* children and placed right after P in the sequence that holds P.
RECURSIVE Outdented(_, _)
Outdented(T, a) ==
    IF \E i \in 1..Len(T) : \E j \in 1..Len(T[i].children) : T[i].children[j].addr = a
    THEN LET i == CHOOSE k \in 1..Len(T) :
                      \E j \in 1..Len(T[k].children) : T[k].children[j].addr = a
             j == CHOOSE k \in 1..Len(T[i].children) : T[i].children[k].addr = a
         IN  SubSeq(T, 1, i - 1)
                 \o <<[T[i] EXCEPT !.children =
                          SubSeq(T[i].children, 1, j - 1)
                              \o SubSeq(T[i].children, j + 1, Len(T[i].children))]>>
                 \o <<T[i].children[j]>>
                 \o SubSeq(T, i + 1, Len(T))
    ELSE [i \in 1..Len(T) |-> [T[i] EXCEPT !.children = Outdented(T[i].children, a)]]

\* T with the note n placed right after the note at address a.
RECURSIVE WithSiblingAfter(_, _, _)
WithSiblingAfter(T, a, n) ==
    IF \E i \in 1..Len(T) : T[i].addr = a
    THEN LET i == CHOOSE k \in 1..Len(T) : T[k].addr = a
         IN  SubSeq(T, 1, i) \o <<n>> \o SubSeq(T, i + 1, Len(T))
    ELSE [i \in 1..Len(T) |-> [T[i] EXCEPT !.children = WithSiblingAfter(T[i].children, a, n)]]

\* No content of the forest holds a tab or a newline.
NoTabOrNewline(s) ==
    \A a \in Reach(s.heap, s.notesData) :
        \A i \in 1..Len(s.heap[a].content) : s.heap[a].content[i] \notin {Tab, NL}

\* ---------------------------------------------------------------- claims
\* C1: after any sequence of load, updateContent, insertSiblingAfter, indent,
\* outdent, delete and import (import with any text, also empty or all-blank
\* text) the root sequence of the forest is never empty.
C1_RootSequenceNeverEmpty == loaded => Len(notesData) >= 1

\* C2: import(export(forest)) has the structure and the contents of forest
\* (ids aside) for every forest none of whose contents holds a tab or a
\* newline, forests with empty-content notes included.
C2_ImportOfExportIsTheForest ==
    (loaded /\ NoTabOrNewline(State)) =>
        Contents(TreeOf(importFromTxt(State, exportToTxt(State), [i \in Addrs |-> i])))
            = Contents(TreeOf(State))

\* C3: no two notes of the forest have the same id.
C3_NoteIdsAreUnique ==
    \A a, b \in Reach(heap, notesData) : a # b => heap[a].id # heap[b].id

\* The ordinary forest: every note has its own id.
IdsDiffer(s) == Cardinality(UsedIds(s)) = Cardinality(Reach(s.heap, s.notesData))

\* C4: delete(id) on a note that is not the first root takes exactly that
\* note out of its owning sequence and puts its children there, at its
\* former index and in their order; everything else is as it was.
C4_DeleteSplicesChildren ==
    loaded =>
        \A noteId \in NoteIds(State) :
            LET a == Target(State, noteId)
            IN  (a # 0 /\ a # notesData[1]) =>
                    TreeOf(deleteNote(State, noteId)) = Promoted(TreeOf(State), a)

\* A note that is not the first root and has two children is deleted, and its
\* children take its place.
C4_Witness ==
    /\ loaded /\ IdsDiffer(State)
    /\ \E noteId \in NoteIds(State) :
           LET a == Target(State, noteId)
           IN  /\ a # 0 /\ a # notesData[1]
               /\ Len(heap[a].children) = 2
               /\ TreeOf(deleteNote(State, noteId)) = Promoted(TreeOf(State), a)
               /\ Len(Flat(TreeOf(deleteNote(State, noteId)))) = Len(Flat(TreeOf(State))) - 1

\* C5: delete(id) on the first root never removes it: its content becomes
\* empty, and its id, its children, the root sequence and every other note
\* are as they were, whether or not there are other roots.
C5_DeleteClearsFirstRoot ==
    loaded =>
        \A noteId \in NoteIds(State) :
            (notesData # <<>> /\ heap[notesData[1]].id = noteId) =>
                LET after == deleteNote(State, noteId)
                IN  /\ after.notesData = notesData
                    /\ after.heap = [heap EXCEPT ![notesData[1]].content = <<>>]

\* The first root has text and a child, there is a second root, and delete on
\* the first root empties its content.
C5_Witness ==
    /\ loaded /\ IdsDiffer(State)
    /\ Len(notesData) >= 2
    /\ heap[notesData[1]].content # <<>>
    /\ heap[notesData[1]].children # <<>>
    /\ LET after == deleteNote(State, heap[notesData[1]].id)
       IN  /\ after.heap[notesData[1]].content = <<>>
           /\ after.notesData = notesData

\* a is the first note of the sequence that holds it.
RECURSIVE IsFirstIn(_, _)
IsFirstIn(T, a) ==
    /\ T # <<>>
    /\ \/ T[1].addr = a
       \/ \E i \in 1..Len(T) : IsFirstIn(T[i].children, a)

\* C6: outdent(id) on a note that is not a root takes it out of the children
\* of its parent P and puts it right after P in the sequence that holds P:
\* its depth is one less, its subtree moves with it unchanged, and the
\* siblings that followed it stay children of P.
C6_OutdentPlacesAfterParent ==
    loaded =>
        \A noteId \in NoteIds(State) : \A f \in Focus(noteId) :
            LET a == Target(State, noteId)
                before == TreeOf(saveCurrentNote(State, f.active, f.text))
                after == TreeOf(decreaseNoteDepth(State, noteId, f.active, f.text))
            IN  (a # 0 /\ ~IsRootOf(State, a)) =>
                    /\ after = Outdented(before, a)
                    /\ DepthIn(after, a, 0) = DepthIn(before, a, 0) - 1
                    /\ SubtreeIn(after, a) = SubtreeIn(before, a)

\* What C6 says, of the forests in which every note has its own id.
OutdentPlacesAfterParentWhenIdsDiffer == IdsDiffer(State) => C6_OutdentPlacesAfterParent

\* C7: outdent(id) on a root has exactly the effect of delete(id): the first
\* root has its content cleared and stays, any other root is removed and its
\* children are spliced into the root sequence at its former index.
C7_OutdentOfRootIsDelete ==
    loaded =>
        \A noteId \in NoteIds(State) : \A f \in Focus(noteId) :
            LET a == Target(State, noteId)
                after == decreaseNoteDepth(State, noteId, f.active, f.text)
            IN  (a # 0 /\ IsRootOf(State, a)) =>
                    /\ after = deleteNote(State, noteId)
                    /\ TreeOf(after) = IF a = notesData[1]
                                       THEN WithContent(TreeOf(State), a, <<>>)
                                       ELSE Promoted(TreeOf(State), a)

\* Outdent, with text typed into it, of a second root that has a child: the
\* root goes and its child becomes a root at its index.
C7_Witness ==
    /\ loaded /\ IdsDiffer(State)
    /\ Len(notesData) >= 2
    /\ heap[notesData[2]].children # <<>>
    /\ LET noteId == heap[notesData[2]].id
           after == decreaseNoteDepth(State, noteId, noteId, <<"a">>)
       IN  /\ after = deleteNote(State, noteId)
           /\ after.notesData[2] = heap[notesData[2]].children[1]
           /\ TreeOf(after) # TreeOf(State)

\* C8: indent(id) on a note that is not first in its owning sequence takes it
\* out of that sequence and makes it the last child of the note that was
\* before it: its depth is one more, its subtree moves with it unchanged, and
\* the children the previous sibling had stay before it, in their order.
C8_IndentUnderPreviousSibling ==
    loaded =>
        \A noteId \in NoteIds(State) : \A f \in Focus(noteId) :
            LET a == Target(State, noteId)
                before == TreeOf(saveCurrentNote(State, f.active, f.text))
                after == TreeOf(increaseNoteDepth(State, noteId, f.active, f.text))
            IN  (a # 0 /\ ~IsFirstIn(before, a)) =>
                    /\ after = Indented(before, a)
                    /\ DepthIn(after, a, 0) = DepthIn(before, a, 0) + 1
                    /\ SubtreeIn(after, a) = SubtreeIn(before, a)

\* A root with a child is indented under the root before it, which has a
\* child already: it becomes that root's second child and keeps its own.
C8_Witness ==
    /\ loaded /\ IdsDiffer(State)
    /\ Len(notesData) >= 2
    /\ heap[notesData[1]].children # <<>>
    /\ heap[notesData[2]].children # <<>>
    /\ LET a == notesData[2]
           after == increaseNoteDepth(State, heap[a].id, NoActive, <<>>)
       IN  /\ after.heap[notesData[1]].children = Append(heap[notesData[1]].children, a)
           /\ after.heap[a].children = heap[a].children
           /\ after.notesData = RemoveAt(notesData, 2)

\* C9: indent(id) on the first note of its owning sequence is a no-op: the
\* structure of the forest is left as it was, nothing but the commit of the
\* focused text happens, and without that commit the state is the one an
\* indent with an id that is not there leaves.
C9_IndentOfFirstChangesNothing ==
    loaded =>
        \A noteId \in NoteIds(State) : \A f \in Focus(noteId) :
            LET a == Target(State, noteId)
                after == increaseNoteDepth(State, noteId, f.active, f.text)
            IN  (a # 0 /\ IsFirstIn(TreeOf(State), a)) =>
                    /\ Structure(TreeOf(after)) = Structure(TreeOf(State))
                    /\ after = saveCurrentNote(State, f.active, f.text)
                    /\ f.active = NoActive =>
                           \A absent \in NoteIds(State) :
                               Target(State, absent) = 0 =>
                                   after = increaseNoteDepth(State, absent, NoActive, <<>>)

\* Indent is asked of a first child that has a sibling after it and a child
\* of its own, and the forest stays as it is.
C9_Witness ==
    /\ loaded /\ IdsDiffer(State)
    /\ \E p \in Reach(heap, notesData) :
           /\ Len(heap[p].children) >= 2
           /\ heap[heap[p].children[1]].children # <<>>
           /\ increaseNoteDepth(State, heap[heap[p].children[1]].id, NoActive, <<>>) = State

\* C10: insertSiblingAfter(id) on a note that exists adds exactly one note,
\* with empty content, no children and a fresh id, right after the target in
\* the sequence that holds it; no other note is moved, removed or changed.
C10_SiblingInsertedAfterTarget ==
    (loaded /\ Cardinality(Allocated(heap)) < MaxNodes) =>
        \A noteId \in NoteIds(State), newId \in generateId(State) : \A f \in Focus(noteId) :
            LET a == Target(State, noteId)
                before == TreeOf(saveCurrentNote(State, f.active, f.text))
                after == TreeOf(addNewSibling(State, noteId, f.active, f.text, newId))
                newNote == [addr |-> NewAddr(heap), id |-> newId,
                            content |-> <<>>, children |-> <<>>]
            IN  a # 0 =>
                    /\ after = WithSiblingAfter(before, a, newNote)
                    /\ newId \notin UsedIds(State)

\* What C10 says of the place, the content and the children of the new note,
\* leaving out that its id is fresh.
SiblingInsertedAfterTargetWhateverItsId ==
    (loaded /\ Cardinality(Allocated(heap)) < MaxNodes) =>
        \A noteId \in NoteIds(State), newId \in generateId(State) : \A f \in Focus(noteId) :
            LET a == Target(State, noteId)
                before == TreeOf(saveCurrentNote(State, f.active, f.text))
                after == TreeOf(addNewSibling(State, noteId, f.active, f.text, newId))
                newNote == [addr |-> NewAddr(heap), id |-> newId,
                            content |-> <<>>, children |-> <<>>]
            IN  a # 0 => after = WithSiblingAfter(before, a, newNote)

\* C11: with an id that no note of the forest has, updateContent and delete
\* leave the forest and the stored snapshot as they are, and so do
\* insertSiblingAfter, indent and outdent: the state they leave is the one
\* the commit of the focused text leaves, which is the state before when the
\* focus is on no note or on the note the call names.
C11_AbsentIdChangesNothing ==
    loaded =>
        \A absent \in NoteIds(State) :
            Target(State, absent) = 0 =>
                /\ deleteNote(State, absent) = State
                /\ \A text \in TypedTexts : updateNoteContent(State, absent, text) = State
                /\ \A active \in NoteIds(State) \cup {NoActive}, text \in TypedTexts,
                          newId \in generateId(State) :
                       LET committed == saveCurrentNote(State, active, text)
                       IN  /\ addNewSibling(State, absent, active, text, newId) = committed
                           /\ increaseNoteDepth(State, absent, active, text) = committed
                           /\ decreaseNoteDepth(State, absent, active, text) = committed
                           /\ active \in {absent, NoActive} => committed = State

\* A forest of a root with text, a child and a second root, and an id no note
\* has: every operation called with that id leaves the state as it is.
C11_Witness ==
    /\ loaded /\ IdsDiffer(State)
    /\ Len(notesData) >= 2
    /\ heap[notesData[1]].children # <<>>
    /\ heap[notesData[1]].content # <<>>
    /\ \E absent \in NoteIds(State) :
           /\ Target(State, absent) = 0
           /\ deleteNote(State, absent) = State
           /\ updateNoteContent(State, absent, <<"a">>) = State
           /\ addNewSibling(State, absent, absent, <<"a">>, absent) = State
           /\ increaseNoteDepth(State, absent, absent, <<"a">>) = State
           /\ decreaseNoteDepth(State, absent, absent, <<"a">>) = State

\* The stored snapshot is the forest.
SnapshotIsTheForest ==
    loaded => storage = [present |-> TRUE, data |-> Stringify(heap, notesData)]

\* C12: between two operations the snapshot stored under the storage key is
\* the forest in memory, so that a reload (loadNotes) at that point gives the
\* forest as the last completed operation left it.
C12_ReloadRestoresTheForest ==
    loaded =>
        /\ storage = [present |-> TRUE, data |-> Stringify(heap, notesData)]
        /\ \A newId \in generateId([State EXCEPT !.heap = EmptyHeap, !.notesData = <<>>]) :
               LET reloaded == loadNotes(State, newId)
               IN  Stringify(reloaded.heap, reloaded.notesData) = Stringify(heap, notesData)

\* What C12 says, of the forests that have a root.
ReloadRestoresTheForestThatHasARoot ==
    Len(notesData) >= 1 => C12_ReloadRestoresTheForest

\* The number of tabs a line starts with.
LeadingTabs(line) ==
    CHOOSE n \in 0..Len(line) :
        /\ \A i \in 1..n : line[i] = Tab
        /\ n < Len(line) => line[n + 1] # Tab

\* The lines of a text that hold a character other than white space.
NonBlankLines(txt) ==
    SelectSeq(Split(txt), LAMBDA line : \E i \in 1..Len(line) : ~IsSpace(line[i]))

\* The nearest line before line k that starts with fewer tabs (0: none).
Attachment(lines, k) ==
    LET shallower(j) == LeadingTabs(lines[j]) < LeadingTabs(lines[k])
    IN  IF \E j \in 1..(k - 1) : shallower(j)
        THEN CHOOSE j \in 1..(k - 1) : shallower(j) /\ \A i \in (j + 1)..(k - 1) : ~shallower(i)
        ELSE 0

\* The note whose children hold the note at address a (0: a is a root).
OwnerOf(s, a) ==
    IF IsRootOf(s, a) THEN 0
    ELSE CHOOSE b \in Allocated(s.heap) :
             \E i \in 1..Len(s.heap[b].children) : s.heap[b].children[i] = a

\* A line without the white space at its two ends.
Trimmed(t) ==
    IF \A i \in 1..Len(t) : IsSpace(t[i]) THEN <<>>
    ELSE SubSeq(t, CHOOSE i \in 1..Len(t) : ~IsSpace(t[i]) /\ \A j \in 1..(i - 1) : IsSpace(t[j]),
                   CHOOSE i \in 1..Len(t) : ~IsSpace(t[i]) /\ \A j \in (i + 1)..Len(t) : IsSpace(t[j]))

\* C13: import attaches the note of each non-blank line (the k-th note made,
\* at address k) under the note of the nearest non-blank line before it that
\* starts with strictly fewer tabs, and to the root sequence when there is
\* none, by however many tabs the two lines differ.
C13_ImportAttachesUnderNearestShallowerLine ==
    file.pending =>
        \A ids \in FileIds :
            LET lines == NonBlankLines(file.text)
                after == importFromTxt(State, file.text, ids)
            IN  \A k \in 1..Len(lines) :
                    /\ k \in Reach(after.heap, after.notesData)
                    /\ OwnerOf(after, k) = Attachment(lines, k)

\* A file of three lines with no, two and one tab: the second line, two
\* levels deeper, and the third both become children of the first.
C13_Witness ==
    /\ ~file.pending
    /\ LET lines == NonBlankLines(file.text)
       IN  /\ Len(lines) = 3
           /\ LeadingTabs(lines[1]) = 0
           /\ LeadingTabs(lines[2]) = 2
           /\ LeadingTabs(lines[3]) = 1
           /\ notesData = <<1>>
           /\ heap[1].children = <<2, 3>>
           /\ heap[2].children = <<>>

\* C14: import gives, for every text, a forest with exactly one note per
\* line that is not empty after trimming, and the contents of the notes in
\* document order are those lines, trimmed, in their order.
C14_ImportMakesOneNotePerNonBlankLine ==
    file.pending =>
        \A ids \in FileIds :
            LET lines == NonBlankLines(file.text)
                after == importFromTxt(State, file.text, ids)
                notes == PreOrder(after.heap, after.notesData)
            IN  /\ Len(notes) = Len(lines)
                /\ Cardinality(Allocated(after.heap)) = Len(lines)
                /\ \A k \in 1..Len(lines) : after.heap[notes[k]].content = Trimmed(lines[k])

\* A file of three lines, the second blank and the third with white space
\* after its text: two notes, with the two texts in their order.
C14_Witness ==
    /\ ~file.pending
    /\ Len(Split(file.text)) = 3
    /\ Len(NonBlankLines(file.text)) = 2
    /\ Split(file.text)[2] # <<>>
    /\ Trimmed(Split(file.text)[2]) = <<>>
    /\ Split(file.text)[3] = <<Tab, "b", Space>>
    /\ Len(PreOrder(heap, notesData)) = 2
    /\ heap[1].content = <<"a">>
    /\ heap[2].content = <<"b">>

\* One line per note of T in document order: as many tabs as the note is
\* deep, then its content.
RECURSIVE ExportLines(_, _)
ExportLines(T, d) ==
    IF T = <<>> THEN <<>>
    ELSE <<Repeat(Tab, d) \o Head(T).content>>
             \o ExportLines(Head(T).children, d + 1)
             \o ExportLines(Tail(T), d)

\* A text without the white space at its end.
WithoutTrailingSpace(t) ==
    IF \A i \in 1..Len(t) : IsSpace(t[i]) THEN <<>>
    ELSE SubSeq(t, 1, CHOOSE i \in 1..Len(t) :
                          ~IsSpace(t[i]) /\ \A j \in (i + 1)..Len(t) : IsSpace(t[j]))

\* C15: the export of a forest is one line per note in document order, the
\* line of a note at depth d being d tabs and then its content, the lines
\* joined by single newlines, with nothing changed but the white space at
\* the end of the whole text, which is removed.
C15_ExportIsOneLinePerNote ==
    loaded =>
        exportToTxt(State) = WithoutTrailingSpace(Join(ExportLines(TreeOf(State), 0)))

\* What C15 says, of the forests whose first root has text.
ExportIsOneLinePerNoteWhenFirstRootHasText ==
    (notesData # <<>> /\ heap[notesData[1]].content # <<>>) => C15_ExportIsOneLinePerNote

\* C16: after delete(id) on a note that is not the first root, each of the
\* note's former children is as deep as it was before.
C16_ChildrenKeepTheirDepth ==
    loaded =>
        \A noteId \in NoteIds(State) :
            LET a == Target(State, noteId)
                after == TreeOf(deleteNote(State, noteId))
            IN  (a # 0 /\ a # notesData[1]) =>
                    \A i \in 1..Len(heap[a].children) :
                        DepthIn(after, heap[a].children[i], 0)
                            = DepthIn(TreeOf(State), heap[a].children[i], 0)

\* C16 as amended: after delete(id) on a note that is not the first root,
\* each of the note's former children is one level less deep than it was: it
\* is at the depth the deleted note had.
C16_ChildrenRiseOneLevel ==
    loaded =>
        \A noteId \in NoteIds(State) :
            LET a == Target(State, noteId)
                after == TreeOf(deleteNote(State, noteId))
            IN  (a # 0 /\ a # notesData[1]) =>
                    \A i \in 1..Len(heap[a].children) :
                        /\ DepthIn(after, heap[a].children[i], 0)
                               = DepthIn(TreeOf(State), heap[a].children[i], 0) - 1
                        /\ DepthIn(after, heap[a].children[i], 0)
                               = DepthIn(TreeOf(State), a, 0)

\* A note at depth 1 with two children is deleted: the children, at depth 2
\* before, are at depth 1 after.
C16_Witness ==
    /\ loaded /\ IdsDiffer(State)
    /\ \E a \in Reach(heap, notesData) :
           LET after == TreeOf(deleteNote(State, heap[a].id))
           IN  /\ DepthIn(TreeOf(State), a, 0) = 1
               /\ Len(heap[a].children) = 2
               /\ DepthIn(after, a, 0) = -1
               /\ \A i \in 1..2 : DepthIn(after, heap[a].children[i], 0) = 1

\* C17: in a forest worked on through the key handler alone (Enter, Tab,
\* Shift+Tab), starting from one whose notes are all at depth MAX_DEPTH or
\* less, no note is ever deeper than MAX_DEPTH, the notes below a note that
\* was indented included.
C17_NoNoteDeeperThanMaxDepth ==
    \A a \in Reach(heap, notesData) : DepthIn(TreeOf(State), a, 0) <= MAX_DEPTH

\* What the test of handleKeydown does give: a Tab never takes the note it is
\* pressed in deeper than MAX_DEPTH.
TabKeepsTheNoteItMovesWithinMaxDepth ==
    \A noteEl \in Reach(heap, notesData) :
        LET after == handleKeydown(State, "Tab", FALSE, noteEl,
                                   heap[noteEl].content, UnusedId(State))
        IN  DepthIn(TreeOf(after), noteEl, 0) > DepthIn(TreeOf(State), noteEl, 0)
                => DepthIn(TreeOf(after), noteEl, 0) <= MAX_DEPTH

\* s with text, trimmed, as the content of the note at address a, and saved.
WithCommitted(s, a, text) ==
    saveNotes([s EXCEPT !.heap[a].content = Trimmed(text)])

\* C18: an Enter, Tab or Shift+Tab pressed in a note commits the text typed
\* in that note's editing surface to that note before anything else: what
\* the key leaves is what the structural operation (insert sibling, indent,
\* outdent, or the delete an outdent of a root is) makes of the forest in
\* which the note has the typed text, trimmed, as its content.
C18_TypedTextIsCommittedFirst ==
    loaded =>
        \A noteEl \in Reach(heap, notesData), text \in TypedTexts, newId \in generateId(State) :
            LET noteId == heap[noteEl].id
                committed == WithCommitted(State, noteEl, text)
            IN  /\ Cardinality(Allocated(heap)) < MaxNodes =>
                       handleKeydown(State, "Enter", FALSE, noteEl, text, newId)
                           = addNewSibling(committed, noteId, NoActive, <<>>, newId)
                /\ handleKeydown(State, "Tab", FALSE, noteEl, text, newId)
                       = increaseNoteDepth(committed, noteId, NoActive, <<>>)
                /\ handleKeydown(State, "Tab", TRUE, noteEl, text, newId)
                       = decreaseNoteDepth(committed, noteId, NoActive, <<>>)

\* What C18 says, of the forests in which every note has its own id.
TypedTextIsCommittedFirstWhenIdsDiffer ==
    IdsDiffer(State) => C18_TypedTextIsCommittedFirst

\* The texts updateContent is tried with: typed text, also with white space
\* before and after it.
EditedTexts == SeqsUpTo({"a", Space}, MaxTypedLen + 1)

\* C19: updateContent(id, text) changes nothing but the content of the note
\* with that id, which becomes the trimmed text: structure, ids and the
\* contents of the other notes are as they were, and a second call with the
\* same id and text leaves the forest as the first call left it.
C19_UpdateContentIsIdempotentAndFramed ==
    loaded =>
        \A id \in NoteIds(State), text \in EditedTexts :
            LET a == Target(State, id)
                once == updateNoteContent(State, id, text)
                twice == updateNoteContent(once, id, text)
            IN  /\ twice = once
                /\ a # 0 => TreeOf(once) = WithContent(TreeOf(State), a, Trimmed(text))
                /\ a = 0 => once = State

\* A note that is not the first, has a child and no text gets the text
\* " a": its content becomes "a", nothing else changes, and the second call
\* changes nothing.
C19_Witness ==
    /\ loaded /\ IdsDiffer(State)
    /\ \E a \in Reach(heap, notesData) :
           LET once == updateNoteContent(State, heap[a].id, <<Space, "a">>)
           IN  /\ a # notesData[1]
               /\ heap[a].children # <<>>
               /\ heap[a].content = <<>>
               /\ once.heap = [heap EXCEPT ![a].content = <<"a">>]
               /\ once.notesData = notesData
               /\ updateNoteContent(once, heap[a].id, <<Space, "a">>) = once

\* C20: load leaves a forest with a root.  With nothing stored, or with an
\* empty forest stored, the forest after load is one root with empty content
\* and no children, and it is stored; with a forest that has notes stored,
\* the forest after load is the stored one and the store is left alone.
C20_LoadGivesTheStoredForestOrOneRoot ==
    \A newId \in generateId([State EXCEPT !.heap = EmptyHeap, !.notesData = <<>>]) :
        LET after == loadNotes(State, newId)
            root == [id |-> newId, content |-> <<>>, children |-> <<>>]
        IN  /\ Len(after.notesData) >= 1
            /\ IF ~storage.present \/ storage.data = <<>>
               THEN /\ Stringify(after.heap, after.notesData) = <<root>>
                    /\ after.storage = [present |-> TRUE, data |-> <<root>>]
               ELSE /\ Stringify(after.heap, after.notesData) = storage.data
                    /\ after.storage = storage

\* An empty forest is stored (a blank file was imported), and load makes the
\* one empty root and stores it.
C20_Witness ==
    /\ loaded
    /\ storage = [present |-> TRUE, data |-> <<>>]
    /\ LET after == loadNotes(State, 1)
       IN  /\ after.notesData = <<1>>
           /\ after.heap[1] = [id |-> 1, content |-> <<>>, children |-> <<>>]
           /\ Allocated(after.heap) = {1}
           /\ after.storage.data = <<[id |-> 1, content |-> <<>>, children |-> <<>>]>>

\* The places that hold a note: <<o, i>> is index i of the array with
\* identity o.
Holders(s) ==
    UNION {{<<o, i>> : i \in 1..Len(ArrayOf(s, o))} : o \in {0} \cup Allocated(s.heap)}

HeldTimes(s, a) ==
    Cardinality({p \in Holders(s) : ArrayOf(s, p[1])[p[2]] = a})

\* The notes within n levels below the note at address a.
RECURSIVE BelowWithin(_, _, _)
BelowWithin(h, a, n) ==
    IF n = 0 THEN {}
    ELSE LET kids == {h[a].children[i] : i \in 1..Len(h[a].children)}
         IN  kids \cup UNION {BelowWithin(h, k, n - 1) : k \in kids}

\* Every note object is held by one array at one index, every array holds
\* note objects only, and no note is below itself.
WellFormed(s) ==
    /\ \A p \in Holders(s) : ArrayOf(s, p[1])[p[2]] \in Allocated(s.heap)
    /\ \A a \in Allocated(s.heap) :
           /\ HeldTimes(s, a) = 1
           /\ a \notin BelowWithin(s.heap, a, Cardinality(DOMAIN s.heap))

\* The ids of the notes of s, each as often as a note has it.
IdBag(s) ==
    [id \in UsedIds(s) |-> Cardinality({a \in Reach(s.heap, s.notesData) : s.heap[a].id = id})]

\* C21: what insertSiblingAfter, indent, outdent and delete leave is a
\* well-formed forest (every note held by exactly one sequence exactly once,
\* no note below itself), and indent and outdent neither lose nor add notes.
C21_ForestStaysWellFormed ==
    loaded =>
        \A noteId \in NoteIds(State), newId \in generateId(State) : \A f \in Focus(noteId) :
            LET inserted == addNewSibling(State, noteId, f.active, f.text, newId)
                indented == increaseNoteDepth(State, noteId, f.active, f.text)
                outdented == decreaseNoteDepth(State, noteId, f.active, f.text)
                deleted == deleteNote(State, noteId)
            IN  /\ Cardinality(Allocated(heap)) < MaxNodes => WellFormed(inserted)
                /\ WellFormed(indented)
                /\ WellFormed(outdented)
                /\ WellFormed(deleted)
                /\ Reach(indented.heap, indented.notesData) = Reach(heap, notesData)
                /\ IdBag(indented) = IdBag(State)
                /\ Reach(outdented.heap, outdented.notesData) = Reach(heap, notesData)
                /\ IdBag(outdented) = IdBag(State)

\* C21 as amended: the same, with outdent said to keep the notes when the
\* note it is asked of is not a root (outdent of a root is a delete).
C21_ForestStaysWellFormedOutdentOfNonRootKeepsNotes ==
    loaded =>
        \A noteId \in NoteIds(State), newId \in generateId(State) : \A f \in Focus(noteId) :
            LET inserted == addNewSibling(State, noteId, f.active, f.text, newId)
                indented == increaseNoteDepth(State, noteId, f.active, f.text)
                outdented == decreaseNoteDepth(State, noteId, f.active, f.text)
                deleted == deleteNote(State, noteId)
                a == Target(State, noteId)
            IN  /\ Cardinality(Allocated(heap)) < MaxNodes => WellFormed(inserted)
                /\ WellFormed(indented)
                /\ WellFormed(outdented)
                /\ WellFormed(deleted)
                /\ Reach(indented.heap, indented.notesData) = Reach(heap, notesData)
                /\ IdBag(indented) = IdBag(State)
                /\ (a = 0 \/ ~IsRootOf(State, a)) =>
                       /\ Reach(outdented.heap, outdented.notesData) = Reach(heap, notesData)
                       /\ IdBag(outdented) = IdBag(State)

\* A note with a child is indented under the note before it, and a note
\* that is not a root is outdented: both forests differ from the one before,
\* are well formed and hold the notes it held.
C21_Witness ==
    /\ loaded /\ IdsDiffer(State)
    /\ \E a, b \in Reach(heap, notesData) :
           LET indented == increaseNoteDepth(State, heap[a].id, NoActive, <<>>)
               outdented == decreaseNoteDepth(State, heap[b].id, NoActive, <<>>)
           IN  /\ ~IsFirstIn(TreeOf(State), a)
               /\ heap[a].children # <<>>
               /\ ~IsRootOf(State, b)
               /\ indented.heap # heap
               /\ outdented.heap # heap
               /\ WellFormed(indented)
               /\ WellFormed(outdented)
               /\ Reach(indented.heap, indented.notesData) = Reach(heap, notesData)
               /\ Reach(outdented.heap, outdented.notesData) = Reach(heap, notesData)

\* The note object at index 0 of the root array of s is the one of State,
\* with its id.
KeepsFirstRoot(s) ==
    /\ s.notesData # <<>>
    /\ s.notesData[1] = notesData[1]
    /\ s.heap[s.notesData[1]].id = heap[notesData[1]].id

\* C22: updateContent, insertSiblingAfter, indent, outdent and delete, asked
\* of any note, leave at index 0 of the root sequence the note that was
\* there, with its id.
C22_FirstRootStaysFirst ==
    (loaded /\ notesData # <<>>) =>
        \A noteId \in NoteIds(State), newId \in generateId(State) : \A f \in Focus(noteId) :
            /\ \A text \in TypedTexts : KeepsFirstRoot(updateNoteContent(State, noteId, text))
            /\ Cardinality(Allocated(heap)) < MaxNodes =>
                   KeepsFirstRoot(addNewSibling(State, noteId, f.active, f.text, newId))
            /\ KeepsFirstRoot(increaseNoteDepth(State, noteId, f.active, f.text))
            /\ KeepsFirstRoot(decreaseNoteDepth(State, noteId, f.active, f.text))
            /\ KeepsFirstRoot(deleteNote(State, noteId))

\* The first root has text and a child and there is a second root: outdent
\* of the first root clears it, outdent of its child puts the child second,
\* Enter in it puts the new note second, and it stays first each time.
C22_Witness ==
    /\ loaded /\ IdsDiffer(State)
    /\ Len(notesData) >= 2
    /\ Cardinality(Allocated(heap)) < MaxNodes
    /\ heap[notesData[1]].content # <<>>
    /\ heap[notesData[1]].children # <<>>
    /\ LET first == notesData[1]
           child == heap[first].children[1]
           cleared == decreaseNoteDepth(State, heap[first].id, NoActive, <<>>)
           outdented == decreaseNoteDepth(State, heap[child].id, NoActive, <<>>)
           inserted == addNewSibling(State, heap[first].id, NoActive, <<>>, UnusedId(State))
       IN  /\ cleared.notesData = notesData
           /\ cleared.heap[first].content = <<>>
           /\ outdented.notesData[1] = first
           /\ outdented.notesData[2] = child
           /\ inserted.notesData[1] = first
           /\ inserted.notesData[2] = NewAddr(heap)

\* C23: in outdent of a note that is not a root, the search for the note
\* whose children array holds the target succeeds, however deep the target
\* is: it finds that note and the array that holds it, and the outdent
\* changes the forest.
C23_ParentSearchSucceeds ==
    \A noteId \in UsedIds(State) :
        LET noteEl == Target(State, noteId)
        IN  ~IsRootOf(State, noteEl) =>
            LET r == findNoteAndParent(State, noteId)
                p == FindParent(State, r.parentArray)
                after == decreaseNoteDepth(State, noteId, NoActive, <<>>)
            IN  /\ r.found
                /\ r.note = noteEl
                /\ r.parentArray = OwnerOf(State, noteEl)
                /\ p.found
                /\ p.parentNoteId = heap[OwnerOf(State, noteEl)].id
                /\ p.containerArray = OwnerOf(State, OwnerOf(State, noteEl))
                /\ TreeOf(after) # TreeOf(State)
                /\ OwnerOf(after, noteEl) = OwnerOf(State, OwnerOf(State, noteEl))

\* A note at depth 5, the last of a chain under the second child of a root,
\* is outdented: its parent is found four levels down.
C23_Witness ==
    \E noteEl \in Reach(heap, notesData) :
        LET after == decreaseNoteDepth(State, heap[noteEl].id, NoActive, <<>>)
        IN  /\ DepthIn(TreeOf(State), noteEl, 0) = 5
            /\ Len(notesData) = 1
            /\ Len(heap[notesData[1]].children) = 2
            /\ FindParent(State, OwnerOf(State, noteEl)).found
            /\ DepthIn(TreeOf(after), noteEl, 0) = 4

\* C24: every deferred focus callback requests focus only on a view node that
\* exists when it runs, whatever ran between the operation and the callback:
\* no callback calls focus() on a view node that is missing, and the element
\* that has the focus is the element of a note of the forest.
C24_CallbacksFocusOnlyExistingNodes ==
    /\ ~thrown
    /\ focus.on = "note" => focus.note \in Reach(heap, notesData)

\* The element the callback of deleteNote is meant to give the focus: that of
\* the note now at index of the array the note was deleted from, or of the
\* note at index - 1, or the container.
FocusAfter(s, index) ==
    IF index <= Len(s.notesData)
    THEN [on |-> "note", note |-> s.notesData[index]]
    ELSE IF index - 1 >= 1 /\ index - 1 <= Len(s.notesData)
    THEN [on |-> "note", note |-> s.notesData[index - 1]]
    ELSE [on |-> "container", note |-> 0]

\* The oldest callback is deleteNote's and no task has run since deleteNote
\* left it: notesData holds the array the note was deleted from.
DeleteCallbackIsNext ==
    /\ timers # <<>>
    /\ Head(timers).kind = "afterDelete"
    /\ Head(timers).live
    /\ Head(timers).first

\* C25: after deleteNote has removed a note that is not the first root from
\* index idx of its array, the callback it left requests focus on the note
\* now at idx of that array, or if there is none on the note at idx - 1, or
\* if neither exists on the container.
C25_FocusGoesToTheNoteAtTheIndex ==
    [][(DeleteCallbackIsNext /\ RunTimer)
           => focus' = FocusAfter(State, Head(timers).index)]_vars

\* When every note has its own id, the callback of deleteNote gives the
\* focus to the note at the index.
FocusGoesToTheNoteAtTheIndexWhenIdsDiffer ==
    [][(DeleteCallbackIsNext /\ RunTimer /\ IdsDiffer(State))
           => focus' = FocusAfter(State, Head(timers).index)]_vars

\* The place of the first note with that id in the array that holds it
\* (0: no note has the id).
IndexOf(s, noteId) ==
    LET r == findNoteAndParent(s, noteId)
    IN  IF r.found THEN FindIndex(s.heap, ArrayOf(s, r.parentArray), noteId) ELSE 0

\* indent(id) then outdent(id), no text being typed.
IndentThenOutdent(s, noteId) ==
    decreaseNoteDepth(increaseNoteDepth(s, noteId, NoActive, <<>>), noteId, NoActive, <<>>)

\* C26: for every forest and every note that is not the first of the array
\* that holds it, indent(id) then outdent(id) gives back the original forest:
\* same structure, order, ids and contents.
C26_IndentThenOutdentIsTheIdentity ==
    loaded =>
        \A noteId \in UsedIds(State) :
            IndexOf(State, noteId) > 1 =>
                TreeOf(IndentThenOutdent(State, noteId)) = TreeOf(State)

\* When every note has its own id, indent then outdent is the identity.
IndentThenOutdentIsTheIdentityWhenIdsDiffer ==
    (loaded /\ IdsDiffer(State)) =>
        \A noteId \in UsedIds(State) :
            IndexOf(State, noteId) > 1 =>
                /\ TreeOf(increaseNoteDepth(State, noteId, NoActive, <<>>)) # TreeOf(State)
                /\ IndentThenOutdent(State, noteId) = State

\* The notes of the forest in document order, and their ids.
DocumentOrder(s) == PreOrder(s.heap, s.notesData)

IdsInOrder(s) == [i \in 1..Len(DocumentOrder(s)) |-> s.heap[DocumentOrder(s)[i]].id]

Without(seq, a) == SelectSeq(seq, LAMBDA x : x # a)

\* C27: indent, and delete of a note that is not the first root, never change
\* the document order: after indent the notes in pre-order, and so their ids,
\* are the same sequence as before; after delete they are the old sequence
\* with the deleted note taken out.
C27_IndentAndDeleteKeepDocumentOrder ==
    loaded =>
        \A noteId \in UsedIds(State) :
            LET noteEl == Target(State, noteId)
                deleted == deleteNote(State, noteId)
            IN  /\ \A f \in Focus(noteId) :
                       LET indented == increaseNoteDepth(State, noteId, f.active, f.text)
                       IN  /\ DocumentOrder(indented) = DocumentOrder(State)
                           /\ IdsInOrder(indented) = IdsInOrder(State)
                /\ ~(IsRootOf(State, noteEl) /\ notesData[1] = noteEl) =>
                       /\ DocumentOrder(deleted) = Without(DocumentOrder(State), noteEl)
                       /\ IdsInOrder(deleted) =
                              [i \in 1..Len(DocumentOrder(deleted)) |->
                                  heap[Without(DocumentOrder(State), noteEl)[i]].id]

\* A root with a child is followed by a root with a child: indent of the
\* second root moves it below the first root's child, and delete of the
\* second root leaves its child in its place.
C27_Witness ==
    /\ loaded /\ IdsDiffer(State)
    /\ Len(notesData) = 2
    /\ heap[notesData[1]].children # <<>>
    /\ heap[notesData[2]].children # <<>>
    /\ LET second == notesData[2]
           indented == increaseNoteDepth(State, heap[second].id, NoActive, <<>>)
           deleted == deleteNote(State, heap[second].id)
       IN  /\ indented.notesData = <<notesData[1]>>
           /\ indented.heap[notesData[1]].children =
                  Append(heap[notesData[1]].children, second)
           /\ deleted.notesData = <<notesData[1]>> \o heap[second].children

\* C28: import normalises.  For every text t, the export of import(t)
\* imported again gives a forest with the structure and the contents of
\* import(t), whatever the ids: import(export(import(t))) = import(t), also
\* when t has indentation jumps, blank lines or white space around a line.
C28_ImportNormalises ==
    file.pending =>
        \A ids \in FileIds, again \in FileIds :
            LET imported == importFromTxt(State, file.text, ids)
                reimported == importFromTxt(imported, exportToTxt(imported), again)
            IN  Contents(TreeOf(reimported)) = Contents(TreeOf(imported))

\* A file whose first line has white space around its text, whose second
\* line is blank and whose third line is two levels deeper than the first:
\* the export of the forest it gave is another text, and gives that forest.
C28_Witness ==
    /\ ~file.pending
    /\ Split(file.text) = <<(<<Space, Tab, "a">>), (<<Space>>), (<<Tab, Tab, "b">>)>>
    /\ notesData = <<1>>
    /\ heap[1].children = <<2>>
    /\ exportToTxt(State) = <<"a", NL, Tab, "b">>
    /\ exportToTxt(State) # file.text
    /\ \A again \in FileIds :
           Contents(TreeOf(importFromTxt(State, exportToTxt(State), again)))
               = Contents(TreeOf(State))

\* The place of the note at address a in the array that holds it.
PlaceOf(s, a) ==
    LET arr == ArrayOf(s, OwnerOf(s, a))
    IN  CHOOSE i \in 1..Len(arr) : arr[i] = a

\* C29: in the earlier editor, outdent of a note that is not a root, the
\* only child of its parent included, completes without raising and puts the
\* note in the array that holds its parent, immediately after the parent.
C29_EarlierOutdentPlacesTheNoteAfterItsParent ==
    \A noteEl \in Reach(heap, notesData) :
        ~IsRootOf(State, noteEl) =>
            LET parent == OwnerOf(State, noteEl)
                out == scriptDecreaseNoteDepth(State, heap[noteEl].id)
            IN  /\ ~out.raised
                /\ OwnerOf(out.state, noteEl) = OwnerOf(State, parent)
                /\ PlaceOf(out.state, noteEl) = PlaceOf(out.state, parent) + 1

\* What the earlier decreaseNoteDepth does to a note that is not a root: for
\* an only child it raises and changes nothing; otherwise the note stays in
\* the array of its parent's children, after the first of its siblings.
EarlierOutdentNeverLeavesTheParent ==
    \A noteEl \in Reach(heap, notesData) :
        ~IsRootOf(State, noteEl) =>
            LET parent == OwnerOf(State, noteEl)
                out == scriptDecreaseNoteDepth(State, heap[noteEl].id)
            IN  IF Len(heap[parent].children) = 1
                THEN out.raised /\ out.state = State
                ELSE /\ ~out.raised
                     /\ OwnerOf(out.state, noteEl) = parent
                     /\ PlaceOf(out.state, noteEl) = 2


============================================================================
